---- MODULE Spec2Model ----
(***************************************************************************)
(* Model of scripts/bot/pr_checker.py: path resolution, result            *)
(* aggregation, report rendering and the command-line entry point.        *)
(*                                                                         *)
(* Paths are strings.  A Markdown document is a sequence of lines; a line *)
(* is a tuple whose first element names the fixed text of the line and    *)
(* whose other elements are the values the f-string interpolates.  An     *)
(* error message is the sequence of its '\n'-separated lines, so a        *)
(* message "contains a line break" iff it has more than one line.         *)
(* A dict is an insertion-ordered sequence of <<key, value>> pairs.       *)
(* The diagnostic stream (stderr) is not part of the state.               *)
(***************************************************************************)
EXTENDS Integers, Sequences, FiniteSets, TLC

\* ---------------------------------------------------------------- bounds
MaxFiles == 2   \* longest --files list
MaxKeys == 2    \* largest result map handed directly to the renderer
MaxErrs == 2    \* longest error list handed directly to the renderer

\* ------------------------------------------------------------ file system
project_root == "/proj"
Dirs == {"/proj", "/work"}
Names == {"a.json", "b.json"}
RelPaths == Names
AbsPaths == {d \o "/" \o n : d \in Dirs, n \in Names}
InputPaths == RelPaths \cup AbsPaths

NoExc == "<no exception>"
ExcMsgs == {"boom", ""}

VARIABLES
    fs,                \* set of absolute paths that exist on disk
    cwd,               \* os.getcwd()
    args,              \* parsed command line: files, output, config
    pc,                \* position in main()
    config,            \* main's local `config`
    normalized_files,  \* check_pr_files local
    missing_files,     \* check_pr_files local
    validator_calls,   \* number of calls made to validate_pull_request
    val_exc,           \* str(e) caught inside check_pr_files, or NoExc
    val_bool,          \* boolean returned by validate_pull_request (False before)
    results,           \* check_pr_files local (bound once the validator returned)
    all_valid,         \* first component returned by check_pr_files
    markdown,          \* second component returned by check_pr_files
    exc,               \* str(e) caught by main's handler, or NoExc
    outfile,           \* documents written to args.output, in order
    stdout,            \* documents printed to standard output, in order
    returned           \* values returned by main(), in order (at most one)

vars == <<fs, cwd, args, pc, config, normalized_files, missing_files,
          validator_calls, val_exc, val_bool, results, all_valid, markdown, exc,
          outfile, stdout, returned>>

\* ------------------------------------------------------------- os.path
isabs(p) == p \in AbsPaths
join(root, p) == root \o "/" \o p
abspath(wd, p) == IF isabs(p) THEN p ELSE join(wd, p)
exists(disk, wd, p) == abspath(wd, p) \in disk

\* ------------------------------------------------------- ordered dicts
Keys(d) == {d[i][1] : i \in DOMAIN d}
Get(d, k) == d[CHOOSE i \in DOMAIN d : d[i][1] = k][2]
DictSet(d, k, v) ==
    IF k \in Keys(d)
    THEN [i \in DOMAIN d |-> IF d[i][1] = k THEN <<k, v>> ELSE d[i]]
    ELSE Append(d, <<k, v>>)
KeyCount(d, k) == Cardinality({i \in DOMAIN d : d[i][1] = k})

\* ------------------------------------------------------------ str.strip
strip(s) ==
    CASE s = "  type A  " -> "type A"
      [] s = "   " -> ""
      [] OTHER -> s

\* ------------------------------------------- format_validation_result
error_files_sum_errors(res) ==
    Cardinality({<<i, j>> \in (DOMAIN res) \X (1..MaxErrs + 2) :
                    j \in DOMAIN res[i][2]})
error_files(res) == Cardinality({i \in DOMAIN res : res[i][2] # <<>>})

RECURSIVE BulletLines(_)
BulletLines(lines) ==
    IF lines = <<>> THEN <<>>
    ELSE (IF strip(Head(lines)) # ""
          THEN << <<"bullet", strip(Head(lines))>> >>
          ELSE <<>>) \o BulletLines(Tail(lines))

RECURSIVE ErrorLines(_, _)
ErrorLines(errors, i) ==
    IF i > Len(errors) THEN <<>>
    ELSE (IF Len(errors[i]) > 1
          THEN << <<"error", i, errors[i][1]>> >> \o BulletLines(Tail(errors[i]))
          ELSE << <<"error", i, errors[i][1]>> >>)
         \o ErrorLines(errors, i + 1)

RECURSIVE FileSections(_)
FileSections(res) ==
    IF res = <<>> THEN <<>>
    ELSE (IF Head(res)[2] # <<>>
          THEN << <<"file_fail", Head(res)[1]>>, <<"blank">> >>
               \o ErrorLines(Head(res)[2], 1) \o << <<"blank">> >>
          ELSE << <<"file_pass", Head(res)[1]>>, <<"blank">>,
                  <<"passed_text">>, <<"blank">> >>)
         \o FileSections(Tail(res))

HelpLines == [k \in 1..14 |-> <<"help", k>>]

SummaryLines(res) ==
    IF error_files(res) = 0
    THEN << <<"h_pass">>, <<"sum_pass", Len(res)>> >>
    ELSE << <<"h_fail">>,
            <<"sum_fail", Len(res), error_files(res), Len(res) - error_files(res)>> >>

format_validation_result(res) ==
    << <<"title">> >> \o SummaryLines(res) \o FileSections(res)
    \o (IF error_files(res) > 0 THEN HelpLines ELSE <<>>)

\* ------------------------------------------------------- check_pr_files
RECURSIVE ResolveLoop_root_only(_, _, _)
ResolveLoop_root_only(disk, wd, files) ==
    IF files = <<>> THEN [norm |-> <<>>, miss |-> <<>>]
    ELSE LET p == Head(files)
             abs_path == IF ~isabs(p) THEN join(project_root, p) ELSE p
             rest == ResolveLoop_root_only(disk, wd, Tail(files))
         IN IF exists(disk, wd, abs_path)
            THEN [norm |-> <<abs_path>> \o rest.norm, miss |-> rest.miss]
            ELSE [norm |-> rest.norm, miss |-> <<p>> \o rest.miss]

RECURSIVE ResolveLoop(_, _, _)
ResolveLoop(disk, wd, files) ==
    IF files = <<>> THEN [norm |-> <<>>, miss |-> <<>>]
    ELSE LET p == Head(files)
             abs_path == IF ~isabs(p) THEN join(project_root, p) ELSE p
             rest == ResolveLoop(disk, wd, Tail(files))
         IN IF exists(disk, wd, abs_path)
            THEN [norm |-> <<abs_path>> \o rest.norm, miss |-> rest.miss]
            ELSE IF exists(disk, wd, p)
                 THEN [norm |-> <<abspath(wd, p)>> \o rest.norm, miss |-> rest.miss]
                 ELSE [norm |-> rest.norm, miss |-> <<p>> \o rest.miss]

MissingItems(miss) == [i \in DOMAIN miss |-> <<"missing_item", miss[i]>>]

NoFilesReport(miss) ==
    << <<"h_fail">>, <<"blank">>, <<"no_files_found">>, <<"blank">> >>
    \o (IF miss # <<>> THEN << <<"missing_header">> >> \o MissingItems(miss)
        ELSE <<>>)

ValidationErrorReport(msg) ==
    << <<"h_fail">>, <<"blank">>, <<"validation_error", msg>>, <<"blank">>,
       <<"see_actions_log">> >>

NotExistError(p) == <<"file does not exist: " \o p>>

RECURSIVE AddMissing(_, _, _)
AddMissing(valid, res, miss) ==
    IF miss = <<>> THEN [all_valid |-> valid, results |-> res]
    ELSE AddMissing(FALSE,
                DictSet(res, Head(miss), <<NotExistError(Head(miss))>>), Tail(miss))

\* ------------------------------------------- validate_pull_request
ValidatorMsgs == << <<"bad json">>, <<"bad record", "", "  type A  ">> >>
ValidatorErrLists == {SubSeq(ValidatorMsgs, 1, n) : n \in 0..Len(ValidatorMsgs)}

RECURSIVE Distinct(_)
Distinct(s) ==
    IF s = <<>> THEN <<>>
    ELSE LET d == Distinct(SubSeq(s, 1, Len(s) - 1))
         IN IF \E i \in DOMAIN d : d[i] = s[Len(s)] THEN d ELSE Append(d, s[Len(s)])

ValidatorMaps(files) ==
    LET ks == Distinct(files)
    IN {[i \in DOMAIN ks |-> <<ks[i], f[i]>>] : f \in [DOMAIN ks -> ValidatorErrLists]}

validate_pull_request(files) == BOOLEAN \X ValidatorMaps(files)

\* ------------------------------------------------------------ main()
FilesLists == UNION {[1..n -> InputPaths] : n \in 1..MaxFiles}

Init ==
    /\ fs \in SUBSET AbsPaths
    /\ cwd \in Dirs
    /\ args \in [files : FilesLists, output : BOOLEAN, config : BOOLEAN]
    /\ pc = "load_config"
    /\ config = "None"
    /\ normalized_files = <<>>
    /\ missing_files = <<>>
    /\ validator_calls = 0
    /\ val_exc = NoExc
    /\ val_bool = FALSE
    /\ results = <<>>
    /\ all_valid = FALSE
    /\ markdown = <<>>
    /\ exc = NoExc
    /\ outfile = <<>>
    /\ stdout = <<>>
    /\ returned = <<>>

Env == <<fs, cwd, args>>
CheckLocals == <<normalized_files, missing_files, validator_calls, val_exc, val_bool,
                 results, all_valid, markdown>>
Sinks == <<outfile, stdout, returned>>

\* lines 198-203: load_config returns
LoadConfigOk ==
    /\ pc = "load_config"
    /\ config' = IF args.config THEN "explicit" ELSE "default"
    /\ pc' = "check"
    /\ UNCHANGED <<Env, CheckLocals, exc, Sinks>>

\* line 200: load_config(args.config) raises; caught at line 222
LoadConfigExplicitRaise ==
    /\ pc = "load_config"
    /\ args.config
    /\ \E msg \in ExcMsgs : exc' = msg
    /\ pc' = "handler"
    /\ UNCHANGED <<Env, config, CheckLocals, Sinks>>

\* lines 202-205: load_config() raises; warning only
LoadConfigDefaultRaise ==
    /\ pc = "load_config"
    /\ ~args.config
    /\ pc' = "check"
    /\ UNCHANGED <<Env, config, CheckLocals, exc, Sinks>>

\* lines 109-145: resolution loop; returns at once when nothing resolved
ResolvePaths_no_short_circuit ==
    /\ pc = "check"
    /\ LET r == ResolveLoop(fs, cwd, args.files)
       IN /\ normalized_files' = r.norm
          /\ missing_files' = r.miss
          /\ pc' = "validate"
          /\ UNCHANGED <<all_valid, markdown>>
    /\ UNCHANGED <<Env, config, validator_calls, val_exc, val_bool, results, exc, Sinks>>

ResolvePaths ==
    /\ pc = "check"
    /\ LET r == ResolveLoop(fs, cwd, args.files)
       IN /\ normalized_files' = r.norm
          /\ missing_files' = r.miss
          /\ IF r.norm = <<>>
             THEN /\ all_valid' = FALSE
                  /\ markdown' = NoFilesReport(r.miss)
                  /\ pc' = "write"
             ELSE /\ pc' = "validate"
                  /\ UNCHANGED <<all_valid, markdown>>
    /\ UNCHANGED <<Env, config, validator_calls, val_exc, val_bool, results, exc, Sinks>>

\* lines 147-159: validator returns; missing files merged; report rendered
ValidateReturn ==
    /\ pc = "validate"
    /\ validator_calls' = validator_calls + 1
    /\ \E ret \in validate_pull_request(normalized_files) :
          LET m == AddMissing(ret[1], ret[2], missing_files)
          IN /\ results' = m.results
             /\ all_valid' = m.all_valid
             /\ markdown' = format_validation_result(m.results)
             /\ val_bool' = ret[1]
    /\ pc' = "write"
    /\ UNCHANGED <<Env, config, normalized_files, missing_files, val_exc, exc, Sinks>>

\* lines 160-174: validator raises; caught inside check_pr_files
ValidateRaise_propagates ==
    /\ pc = "validate"
    /\ validator_calls' = validator_calls + 1
    /\ \E msg \in ExcMsgs :
          /\ val_exc' = msg
          /\ exc' = msg
    /\ pc' = "handler"
    /\ UNCHANGED <<Env, config, normalized_files, missing_files, val_bool,
                   results, all_valid, markdown, Sinks>>

ValidateRaise ==
    /\ pc = "validate"
    /\ validator_calls' = validator_calls + 1
    /\ \E msg \in ExcMsgs :
          /\ val_exc' = msg
          /\ markdown' = ValidationErrorReport(msg)
    /\ all_valid' = FALSE
    /\ pc' = "write"
    /\ UNCHANGED <<Env, config, normalized_files, missing_files, val_bool, results,
                   exc, Sinks>>

\* lines 211-221: report written, status returned
WriteOutput_always_zero ==
    /\ pc = "write"
    /\ IF args.output
       THEN outfile' = Append(outfile, markdown) /\ UNCHANGED stdout
       ELSE stdout' = Append(stdout, markdown) /\ UNCHANGED outfile
    /\ returned' = Append(returned, 0)
    /\ pc' = "done"
    /\ UNCHANGED <<Env, config, CheckLocals, exc>>

WriteOutput ==
    /\ pc = "write"
    /\ IF args.output
       THEN outfile' = Append(outfile, markdown) /\ UNCHANGED stdout
       ELSE stdout' = Append(stdout, markdown) /\ UNCHANGED outfile
    /\ returned' = Append(returned, IF all_valid THEN 0 ELSE 1)
    /\ pc' = "done"
    /\ UNCHANGED <<Env, config, CheckLocals, exc>>

\* lines 211-219: makedirs, open, write or print raises; caught at line 222
WriteOutputRaise ==
    /\ pc = "write"
    /\ \E msg \in ExcMsgs : exc' = msg
    /\ pc' = "handler"
    /\ UNCHANGED <<Env, config, CheckLocals, Sinks>>

FailureReport(msg) ==
    << <<"h_exec_failed">>, <<"blank">>, <<"program_failed", msg>>, <<"blank">>,
       <<"traceback", msg>> >>

\* lines 222-238 with args.output set and the write succeeding
HandlerWriteFile ==
    /\ pc = "handler"
    /\ args.output
    /\ outfile' = Append(outfile, FailureReport(exc))
    /\ returned' = Append(returned, 1)
    /\ pc' = "done"
    /\ UNCHANGED <<Env, config, CheckLocals, exc, stdout>>

\* lines 222-238 with args.output set and the write raising (line 236)
HandlerWriteFileRaise ==
    /\ pc = "handler"
    /\ args.output
    /\ returned' = Append(returned, 1)
    /\ pc' = "done"
    /\ UNCHANGED <<Env, config, CheckLocals, exc, outfile, stdout>>

\* lines 222-238 without args.output: nothing but diagnostics
HandlerNoOutput ==
    /\ pc = "handler"
    /\ ~args.output
    /\ returned' = Append(returned, 1)
    /\ pc' = "done"
    /\ UNCHANGED <<Env, config, CheckLocals, exc, outfile, stdout>>

Next ==
    \/ LoadConfigOk
    \/ LoadConfigExplicitRaise
    \/ LoadConfigDefaultRaise
    \/ ResolvePaths
    \/ ValidateReturn
    \/ ValidateRaise
    \/ WriteOutput
    \/ WriteOutputRaise
    \/ HandlerWriteFile
    \/ HandlerWriteFileRaise
    \/ HandlerNoOutput

Spec == Init /\ [][Next]_vars

\* ------------------------------------- renderer driven on its own
FmtMsgs == {<<"bad json">>, <<"bad record", "", "  type A  ">>}
FmtErrLists == UNION {[1..n -> FmtMsgs] : n \in 0..MaxErrs}
FmtMaps ==
    {m \in UNION {[1..n -> InputPaths \X FmtErrLists] : n \in 0..MaxKeys} :
        \A i, j \in DOMAIN m : m[i][1] = m[j][1] => i = j}

InitFmt ==
    /\ fs = {}
    /\ cwd = project_root
    /\ args = [files |-> <<"a.json">>, output |-> FALSE, config |-> FALSE]
    /\ pc = "format"
    /\ config = "None"
    /\ normalized_files = <<>>
    /\ missing_files = <<>>
    /\ validator_calls = 0
    /\ val_exc = NoExc
    /\ val_bool = FALSE
    /\ results \in FmtMaps
    /\ all_valid = FALSE
    /\ markdown = <<>>
    /\ exc = NoExc
    /\ outfile = <<>>
    /\ stdout = <<>>
    /\ returned = <<>>

\* lines 30-94: one call of format_validation_result(results)
FormatResults ==
    /\ pc = "format"
    /\ markdown' = format_validation_result(results)
    /\ pc' = "formatted"
    /\ UNCHANGED <<Env, config, normalized_files, missing_files, validator_calls,
                   val_exc, val_bool, results, all_valid, exc, Sinks>>

NextFmt == FormatResults

SpecFmt == InitFmt /\ [][NextFmt]_vars

\* =================================================================
\* Properties
\* =================================================================
Candidate1(p) == IF isabs(p) THEN p ELSE join(project_root, p)
Candidate2(p) == abspath(cwd, p)
Resolves(p) == Candidate1(p) \in fs \/ Candidate2(p) \in fs
ResolvedAs(p) == IF Candidate1(p) \in fs THEN Candidate1(p) ELSE Candidate2(p)
FinalKey(p) == IF Resolves(p) THEN ResolvedAs(p) ELSE p
InputSet == {args.files[i] : i \in DOMAIN args.files}
Unresolved == {p \in InputSet : ~Resolves(p)}

SelectedSink == IF args.output THEN outfile ELSE stdout
OtherSink == IF args.output THEN stdout ELSE outfile

CheckReturned == pc \in {"write", "handler", "done"} /\ markdown # <<>>
PathsClassified == pc = "validate" \/ CheckReturned
MapRendered == CheckReturned /\ validator_calls = 1 /\ val_exc = NoExc

HasLine(md, line) == \E i \in DOMAIN md : md[i] = line
CountTag(md, tag) == Cardinality({i \in DOMAIN md : md[i][1] = tag})
Sections(md, k) ==
    Cardinality({i \in DOMAIN md : md[i] = <<"file_fail", k>> \/ md[i] = <<"file_pass", k>>})
HeaderPass(md) == HasLine(md, <<"h_pass">>) /\ ~HasLine(md, <<"h_fail">>)
HeaderFail(md) == HasLine(md, <<"h_fail">>) /\ ~HasLine(md, <<"h_pass">>)

AllClean(res) == \A i \in DOMAIN res : res[i][2] = <<>>

AllResolveAllClean ==
    /\ Unresolved = {}
    /\ MapRendered
    /\ val_bool
    /\ AllClean(results)

\* C1 (as claimed): whenever main's handler caught an exception, a failure
\* report carrying the exception message is in the selected sink and main
\* returned 1; every terminal state has a report in the selected sink and a
\* returned status.
C1_AlwaysReport ==
    pc = "done" =>
        /\ Len(returned) = 1
        /\ SelectedSink # <<>>
        /\ exc # NoExc =>
              /\ returned = <<1>>
              /\ SelectedSink[Len(SelectedSink)] = FailureReport(exc)

\* C2: when no input path resolves, check_pr_files returns success = False
\* without calling validate_pull_request, and the failure text lists every
\* unresolved input path.
C2_NothingResolves ==
    (PathsClassified /\ Unresolved = InputSet) =>
        /\ validator_calls = 0
        /\ CheckReturned
        /\ ~all_valid
        /\ val_exc = NoExc
        /\ \A i \in DOMAIN args.files :
              HasLine(markdown, <<"missing_item", args.files[i]>>)
        /\ CountTag(markdown, "missing_item") = Len(args.files)

C2_Witness ==
    /\ pc = "done"
    /\ Len(args.files) > 1
    /\ args.files[1] # args.files[2]
    /\ Unresolved = InputSet
    /\ stdout = <<markdown>>
    /\ HasLine(markdown, <<"missing_item", args.files[2]>>)

\* C3: whenever check_pr_files returns, a per-file result map was rendered
\* into the report and every input path is exactly once a key of it.
C3_EveryInputIsKey ==
    CheckReturned =>
        /\ MapRendered
        /\ \A p \in InputSet : KeyCount(results, p) = 1

\* C4: every unresolved input path is a key of the result map with exactly
\* the one synthetic error, and overall success is False.
C4_MissingAlwaysInMap ==
    (CheckReturned /\ Unresolved # {}) =>
        /\ ~all_valid
        /\ \A p \in Unresolved :
              /\ KeyCount(results, p) = 1
              /\ Get(results, p) = <<NotExistError(p)>>

\* C5: the report's pass/fail header agrees with the returned boolean, and
\* when a result map was rendered the boolean is True iff every value of the
\* map is an empty error list, whatever pair the validator returned.
C5_HeaderMatchesBoolean ==
    CheckReturned =>
        /\ HeaderPass(markdown) <=> all_valid
        /\ HeaderFail(markdown) <=> ~all_valid
        /\ MapRendered => (all_valid <=> AllClean(results))

\* C6 (as claimed): after the validator raised, main has written the
\* check's failure text to the selected sink and returned 1.
C6_ValidatorRaiseReported ==
    (pc = "done" /\ val_exc # NoExc) =>
        /\ ~all_valid
        /\ markdown = ValidationErrorReport(val_exc)
        /\ SelectedSink = <<markdown>>
        /\ returned = <<1>>

\* C6 (amended): after the validator raised, check_pr_files has returned
\* success = False with the non-empty text embedding the exception message;
\* main returns 1, and unless writing the report itself raises, that text
\* is the one document written, to the selected sink.
C6_ValidatorRaiseRecovered ==
    val_exc # NoExc =>
        /\ CheckReturned
        /\ ~all_valid
        /\ markdown = ValidationErrorReport(val_exc)
        /\ HasLine(markdown, <<"validation_error", val_exc>>)
        /\ pc = "write" => exc = NoExc
        /\ pc = "done" =>
              /\ returned = <<1>>
              /\ exc = NoExc => (SelectedSink = <<markdown>> /\ OtherSink = <<>>)

C6_Witness ==
    /\ pc = "done"
    /\ val_exc = "boom"
    /\ exc = NoExc
    /\ args.output
    /\ outfile = <<ValidationErrorReport("boom")>>
    /\ returned = <<1>>

\* C7 (as claimed): main returns 0 if the overall validation succeeded and
\* 1 otherwise.
C7_StatusIsValidity ==
    pc = "done" => returned = <<IF all_valid THEN 0 ELSE 1>>

\* C7 (amended): main returns 0 iff the overall validation succeeded and
\* writing the report did not raise, 1 otherwise; when every path resolves,
\* the validator reports all clean and the write does not raise, main
\* returns 0 and the summary shows no failing file.
C7_StatusIsValidityUnlessWriteRaises ==
    pc = "done" =>
        /\ returned = <<IF all_valid /\ exc = NoExc THEN 0 ELSE 1>>
        /\ (AllResolveAllClean /\ exc = NoExc) =>
              /\ returned = <<0>>
              /\ HasLine(markdown, <<"sum_pass", Len(results)>>)
              /\ CountTag(markdown, "sum_fail") = 0
              /\ CountTag(markdown, "file_fail") = 0
              /\ SelectedSink = <<markdown>>

C7_Witness ==
    /\ pc = "done"
    /\ AllResolveAllClean
    /\ exc = NoExc
    /\ Len(results) > 1
    /\ returned = <<0>>

\* C8 (as claimed): in every terminal state the report has been written
\* exactly once, to the selected sink and to no other.
C8_WrittenExactlyOnce ==
    pc = "done" => (Len(SelectedSink) = 1 /\ Len(OtherSink) = 0)

\* C9: the resolution loop puts every input element into exactly one of
\* normalized_files and missing_files, in input order; an element is missing
\* only if neither candidate exists, and a resolved element is stored as the
\* project-root candidate when that exists, else as the working-directory
\* candidate.
C9_Classification ==
    PathsClassified =>
        /\ missing_files = SelectSeq(args.files, LAMBDA p : ~Resolves(p))
        /\ LET r == SelectSeq(args.files, Resolves)
           IN normalized_files = [i \in DOMAIN r |-> ResolvedAs(r[i])]
        /\ Len(normalized_files) + Len(missing_files) = Len(args.files)
        /\ \A i \in DOMAIN normalized_files : normalized_files[i] \in fs
        /\ \A i \in DOMAIN missing_files :
              /\ Candidate1(missing_files[i]) \notin fs
              /\ Candidate2(missing_files[i]) \notin fs

C9_Witness ==
    /\ PathsClassified
    /\ missing_files # <<>>
    /\ \E i \in DOMAIN args.files :
          /\ ~isabs(args.files[i])
          /\ Candidate1(args.files[i]) \notin fs
          /\ Candidate2(args.files[i]) \in fs
          /\ normalized_files = <<Candidate2(args.files[i])>>

\* C10: in the rendered report total = passing + failing, failing is the
\* number of keys with a non-empty error list, and the numbers of failing and
\* passing subsections equal the failing and passing counts.
NonEmptyKeys(res) == {i \in DOMAIN res : res[i][2] # <<>>}

C10_SummaryCounts ==
    pc = "formatted" =>
        LET failing == Cardinality(NonEmptyKeys(results))
            passing == Len(results) - failing
        IN /\ CountTag(markdown, "file_fail") = failing
           /\ CountTag(markdown, "file_pass") = passing
           /\ IF failing = 0
              THEN /\ markdown[2] = <<"h_pass">>
                   /\ markdown[3] = <<"sum_pass", Len(results)>>
                   /\ CountTag(markdown, "help") = 0
              ELSE /\ markdown[2] = <<"h_fail">>
                   /\ markdown[3] = <<"sum_fail", Len(results), failing, passing>>
                   /\ markdown[3][2] = markdown[3][3] + markdown[3][4]
                   /\ CountTag(markdown, "help") = 14

C10_Witness ==
    /\ pc = "formatted"
    /\ Len(results) > 1
    /\ Len(results[1][2]) > 1
    /\ results[2][2] = <<>>
    /\ markdown[3] = <<"sum_fail", Len(results), 1, Len(results) - 1>>

====
